---------------------------- MODULE Spec2Model ----------------------------
(***************************************************************************)
(* A model of srtpy/srt_translator.py: the SRT segment parser, the         *)
(* token-budget batcher, the retrying translation gateway and the          *)
(* reconciliation loop of translate_srt_file.                              *)
(*                                                                         *)
(* A Python str is a sequence of one-character strings.  A Segment is a    *)
(* record [id, timestamp, text].                                           *)
(***************************************************************************)
EXTENDS Integers, Sequences, FiniteSets, TLC

VARIABLES
    pc,                  \* position of the program
    content,             \* text of the input file
    api_key,             \* os.environ.get('GEMINI_API_KEY')
    output_path,         \* output_path argument (<<>> stands for None / "")
    max_tokens,          \* budget handed to group_segments_by_token_length
    segments,            \* parsed segments
    groups,              \* batches
    gi,                  \* position of the for loop over groups (1-based)
    retries,             \* retrieve_translation: retries
    invocations,         \* generate_content invocations made by the current call
    backend,             \* history: kind of outcome of the last generate_content invocation
    answer,              \* history: what generate_content answered (SpecGateway)
    returned,            \* value retrieve_translation returned (SpecGateway)
    translated_content,  \* emitted output units
    current_index,       \* running output index
    output_file,         \* what was written to output_path
    raised,              \* exception that left the program ("" when none)
    aligned,             \* history: every answer so far had one non-blank fragment per segment
    expected,            \* history: trimmed fragment the gateway gave for each segment so far
    nonblank_total       \* history: number of non-blank fragments returned so far

vars == <<pc, content, api_key, output_path, max_tokens, segments, groups, gi,
          retries, invocations, backend, answer, returned, translated_content,
          current_index, output_file, raised, aligned, expected, nonblank_total>>

-----------------------------------------------------------------------------
(* Bounds of the model.                                                    *)

MaxContentLen == 4
MaxSegs == 4
MaxBudget == 5
MaxRunSegs == 3
MaxRunBudget == 2
MaxRespLen == 2

-----------------------------------------------------------------------------
(* Strings.                                                                *)

NL == "\n"
CR == "\r"

\* str.isspace for the characters the model uses
IsSpace(c) == c \in {" ", "\n", "\r", "\t"}

RECURSIVE LStrip(_)
LStrip(s) ==
    IF s = <<>> THEN <<>>
    ELSE IF IsSpace(Head(s)) THEN LStrip(Tail(s)) ELSE s

RECURSIVE RStrip(_)
RStrip(s) ==
    IF s = <<>> THEN <<>>
    ELSE IF IsSpace(s[Len(s)]) THEN RStrip(SubSeq(s, 1, Len(s) - 1)) ELSE s

\* str.strip()
Strip(s) == RStrip(LStrip(s))

\* whether pattern p occurs in s at position i
MatchAt(s, p, i) ==
    /\ i + Len(p) - 1 <= Len(s)
    /\ \A k \in 1..Len(p) : s[i + k - 1] = p[k]

\* re.split on an alternation of literal patterns (tried in order at each
\* position, leftmost match wins); str.split(sep) is the one-pattern case
RECURSIVE SplitFrom(_, _, _, _)
SplitFrom(s, pats, i, cur) ==
    IF i > Len(s) THEN <<cur>>
    ELSE LET hit == {k \in 1..Len(pats) : MatchAt(s, pats[k], i)}
         IN IF hit # {}
            THEN LET k == CHOOSE k \in hit : \A j \in hit : k <= j
                 IN <<cur>> \o SplitFrom(s, pats, i + Len(pats[k]), <<>>)
            ELSE SplitFrom(s, pats, i + 1, Append(cur, s[i]))

Split(s, pats) == SplitFrom(s, pats, 1, <<>>)

\* sep.join(parts)
RECURSIVE Join(_, _)
Join(parts, sep) ==
    IF parts = <<>> THEN <<>>
    ELSE IF Len(parts) = 1 THEN parts[1]
    ELSE parts[1] \o sep \o Join(Tail(parts), sep)

Digits == <<"0", "1", "2", "3", "4", "5", "6", "7", "8", "9">>

IsDigit(c) == \E d \in 1..10 : Digits[d] = c

DigitVal(c) == (CHOOSE d \in 1..10 : Digits[d] = c) - 1

RECURSIVE DigitsVal(_)
DigitsVal(s) ==
    IF s = <<>> THEN 0
    ELSE 10 * DigitsVal(SubSeq(s, 1, Len(s) - 1)) + DigitVal(s[Len(s)])

\* int(s): surrounding whitespace is ignored; anything but a non-empty run
\* of decimal digits raises ValueError (the model's alphabets hold no sign
\* and no underscore)
IntOk(s) == Strip(s) # <<>> /\ \A k \in 1..Len(Strip(s)) : IsDigit(Strip(s)[k])

IntVal(s) == DigitsVal(Strip(s))

\* str(n) for n >= 0
RECURSIVE IntToStr(_)
IntToStr(n) ==
    IF n < 10 THEN <<Digits[n + 1]>>
    ELSE Append(IntToStr(n \div 10), Digits[(n % 10) + 1])

\* all sequences over S of length at most n
RECURSIVE SeqsUpTo(_, _)
SeqsUpTo(S, n) ==
    IF n = 0 THEN {<<>>}
    ELSE LET shorter == SeqsUpTo(S, n - 1)
         IN shorter \cup {Append(s, c) : s \in {t \in shorter : Len(t) = n - 1}, c \in S}

-----------------------------------------------------------------------------
(* Segment Parser.                                                         *)

Segment(id, timestamp, text) == [id |-> id, timestamp |-> timestamp, text |-> text]

LinePats == << <<CR, NL>>, <<NL>> >>
BlockPats == << <<CR, NL, CR, NL>>, <<NL, NL>> >>

\* int(id_str) guarded by except ValueError
ParseId(id_str) == IF IntOk(id_str) THEN IntVal(id_str) ELSE 0

\* parse_segment: lines[1] raises IndexError on a block of one line
parse_segment(text) ==
    LET lines == Split(text, LinePats)
    IN IF Len(lines) < 2
       THEN [raised |-> "IndexError", value |-> Segment(0, <<>>, <<>>)]
       ELSE [raised |-> "",
             value |-> Segment(ParseId(lines[1]), lines[2],
                               Join(SubSeq(lines, 3, Len(lines)), <<" ">>))]

\* the parsing stage of translate_srt_file
ParseStage(text) ==
    LET raw_segments == Split(text, BlockPats)
        kept == SelectSeq(raw_segments, LAMBDA seg : Strip(seg) # <<>>)
        parsed == [k \in 1..Len(kept) |-> parse_segment(kept[k])]
    IN IF \E k \in 1..Len(kept) : parsed[k].raised # ""
       THEN [raised |-> "IndexError", segments |-> <<>>]
       ELSE [raised |-> "", segments |-> [k \in 1..Len(kept) |-> parsed[k].value]]

-----------------------------------------------------------------------------
(* Token-Budget Batcher.                                                   *)

estimate_tokens(text) == (Len(text) \div 4) + 1

\* a faulty variant: the test forgets the cost of the segment being added
GroupStep_nocost(st, segment, budget) ==
    LET segment_token_count == estimate_tokens(segment.text)
    IN IF st.current_group_token_count <= budget
       THEN [groups |-> st.groups,
             current_group |-> Append(st.current_group, segment),
             current_group_token_count |->
                 st.current_group_token_count + segment_token_count + 1]
       ELSE [groups |-> Append(st.groups, st.current_group),
             current_group |-> <<segment>>,
             current_group_token_count |-> segment_token_count]

\* one iteration of the for loop of group_segments_by_token_length
GroupStep(st, segment, budget) ==
    LET segment_token_count == estimate_tokens(segment.text)
    IN IF st.current_group_token_count + segment_token_count <= budget
       THEN [groups |-> st.groups,
             current_group |-> Append(st.current_group, segment),
             current_group_token_count |->
                 st.current_group_token_count + segment_token_count + 1]
       ELSE [groups |-> Append(st.groups, st.current_group),
             current_group |-> <<segment>>,
             current_group_token_count |-> segment_token_count]

RECURSIVE GroupLoop(_, _, _, _)
GroupLoop(segs, i, st, budget) ==
    IF i > Len(segs) THEN st
    ELSE GroupLoop(segs, i + 1, GroupStep(st, segs[i], budget), budget)

GroupInit == [groups |-> <<>>, current_group |-> <<>>, current_group_token_count |-> 0]

\* a faulty variant: the final, partially filled group is not emitted
group_segments_noflush(segs, budget) == GroupLoop(segs, 1, GroupInit, budget).groups

group_segments_by_token_length(segs, budget) ==
    LET st == GroupLoop(segs, 1, GroupInit, budget)
    IN IF st.current_group # <<>> THEN Append(st.groups, st.current_group)
       ELSE st.groups


-----------------------------------------------------------------------------
(* Translation Gateway: the retry loop of retrieve_translation.            *)

\* a faulty variant: one attempt more
RETRIES_plus == 3 + 1

\* retries = 3
RETRIES == 3

\* a faulty variant: the last failure is retried as well, so the while loop runs out
OnException_retrylast(r) ==
    IF r > 0 THEN [outcome |-> "retry", retries |-> r - 1]
    ELSE [outcome |-> "raise", retries |-> r]

\* the except branch: retry while retries > 1, else re-raise
OnException(r) ==
    IF r > 1 THEN [outcome |-> "retry", retries |-> r - 1]
    ELSE [outcome |-> "raise", retries |-> r]

\* while retries > 0
LoopCond(r) == r > 0

\* what follows an exception of generate_content: another attempt, the
\* re-raise, or the end of the while loop and return "" (line 98)
AfterFailure(r) ==
    LET e == OnException(r)
    IN IF e.outcome = "raise" THEN [next |-> "raise", retries |-> e.retries]
       ELSE IF LoopCond(e.retries) THEN [next |-> "retry", retries |-> e.retries]
       ELSE [next |-> "fallthrough", retries |-> e.retries]

\* kind of an answer of the backend: "" / whitespace only / anything else
AnswerKind(resp) ==
    IF resp = <<>> THEN "empty"
    ELSE IF Strip(resp) = <<>> THEN "blank"
    ELSE "text"

-----------------------------------------------------------------------------
(* Batch Reconciler and Serializer.                                        *)

\* truth value of a str
Truthy(s) == s # <<>>

Bar == << <<"|">> >>

\* a faulty variant: the timestamp is looked up one position too far
MakeUnit_offbyone(ci, fragment, segs) ==
    [index |-> ci,
     timestamp |-> IF ci < Len(segs) THEN segs[ci + 1].timestamp ELSE <<>>,
     text |-> Strip(fragment)]

\* a faulty variant: the fragment is not trimmed
MakeUnit_notrim(ci, fragment, segs) ==
    [index |-> ci,
     timestamp |-> IF ci <= Len(segs) THEN segs[ci].timestamp ELSE <<>>,
     text |-> fragment]

\* the output unit of one fragment: running index, timestamp of the
\* original segment at that position (or ""), trimmed fragment
MakeUnit(ci, fragment, segs) ==
    [index |-> ci,
     timestamp |-> IF ci <= Len(segs) THEN segs[ci].timestamp ELSE <<>>,
     text |-> Strip(fragment)]

\* a faulty variant: only empty fragments are skipped, blank ones are emitted
ReconcileFragment_noskip(acc, fragment, segs) ==
    IF Truthy(fragment)
    THEN [current_index |-> acc.current_index + 1,
          out |-> Append(acc.out, MakeUnit(acc.current_index + 1, fragment, segs))]
    ELSE acc

\* one iteration of the loop over translated_segments
ReconcileFragment(acc, fragment, segs) ==
    IF Truthy(Strip(fragment))
    THEN [current_index |-> acc.current_index + 1,
          out |-> Append(acc.out, MakeUnit(acc.current_index + 1, fragment, segs))]
    ELSE acc

RECURSIVE ReconcileLoop(_, _, _, _)
ReconcileLoop(frags, j, acc, segs) ==
    IF j > Len(frags) THEN acc
    ELSE ReconcileLoop(frags, j + 1, ReconcileFragment(acc, frags[j], segs), segs)

\* the body of the for loop over groups, after retrieve_translation returned
ReconcileBatch(text, ci, out, segs) ==
    IF ~Truthy(text) THEN [current_index |-> ci, out |-> out]
    ELSE ReconcileLoop(Split(text, Bar), 1, [current_index |-> ci, out |-> out], segs)

\* f"{current_index}\n{timestamp}\n{segment.strip()}\n\n"
SrtBlock(u) ==
    IntToStr(u.index) \o <<NL>> \o u.timestamp \o <<NL>> \o u.text \o <<NL, NL>>

RECURSIVE JoinBlocks(_)
JoinBlocks(units) ==
    IF units = <<>> THEN <<>> ELSE SrtBlock(Head(units)) \o JoinBlocks(Tail(units))

-----------------------------------------------------------------------------
(* The pure functions applied to bounded inputs.                           *)

NotWritten == <<"<not written>">>

\* variables only translate_srt_file's loop uses
loopVars == <<api_key, output_path, gi, retries, invocations, backend, answer,
              returned, translated_content, current_index, output_file, aligned,
              expected, nonblank_total>>

LoopIdle ==
    /\ api_key = <<>>
    /\ output_path = <<>>
    /\ gi = 0
    /\ retries = 0
    /\ invocations = 0
    /\ backend = "none"
    /\ answer = <<>>
    /\ returned = <<>>
    /\ translated_content = <<>>
    /\ current_index = 0
    /\ output_file = NotWritten
    /\ aligned = TRUE
    /\ expected = <<>>
    /\ nonblank_total = 0

\* characters of the parser's inputs: a digit, a letter, the two line
\* ends and a blank
ParseAlphabet == {"1", "a", NL, CR, " "}

InitParse ==
    /\ pc = "parse"
    /\ content \in SeqsUpTo(ParseAlphabet, MaxContentLen)
    /\ max_tokens = 0
    /\ segments = <<>>
    /\ groups = <<>>
    /\ raised = ""
    /\ LoopIdle

\* lines 123-124 of translate_srt_file on the text drawn
ApplyParse ==
    /\ pc = "parse"
    /\ LET r == ParseStage(content)
       IN /\ segments' = r.segments
          /\ raised' = r.raised
          /\ pc' = IF r.raised = "" THEN "parsed" ELSE "raised"
    /\ UNCHANGED <<content, max_tokens, groups>>
    /\ UNCHANGED loopVars

NextParse == ApplyParse

SpecParse == InitParse /\ [][NextParse]_vars

\* a text of n characters
Text(n) == [k \in 1..n |-> "a"]

\* texts of estimated cost 1, 2 and 3
BatchTexts == {Text(0), Text(4), Text(8)}

Timestamp(k) == <<"T">> \o IntToStr(k)

\* the k-th segment of every drawn list has id k and timestamp Tk
SegmentLists(texts, n) ==
    {[k \in 1..Len(ts) |-> Segment(k, Timestamp(k), ts[k])] : ts \in SeqsUpTo(texts, n)}

InitBatch ==
    /\ pc = "group"
    /\ content = <<>>
    /\ segments \in SegmentLists(BatchTexts, MaxSegs)
    /\ max_tokens \in 1..MaxBudget
    /\ groups = <<>>
    /\ raised = ""
    /\ LoopIdle

ApplyGroup ==
    /\ pc = "group"
    /\ groups' = group_segments_by_token_length(segments, max_tokens)
    /\ pc' = "grouped"
    /\ UNCHANGED <<content, max_tokens, segments, raised>>
    /\ UNCHANGED loopVars

NextBatch == ApplyGroup

SpecBatch == InitBatch /\ [][NextBatch]_vars

-----------------------------------------------------------------------------
(* Claims about the batcher (SpecBatch).                                   *)

RECURSIVE Flatten(_)
Flatten(gs) == IF gs = <<>> THEN <<>> ELSE Head(gs) \o Flatten(Tail(gs))

RECURSIVE SumCost(_)
SumCost(g) == IF g = <<>> THEN 0 ELSE estimate_tokens(Head(g).text) + SumCost(Tail(g))

\* the places (batch, position) at which a segment occurs
Places(seg) ==
    {<<b, j>> \in (1..Len(groups)) \X (1..Len(segments)) :
        j <= Len(groups[b]) /\ groups[b][j] = seg}

\* C1: the batches, concatenated in order, are exactly the input sequence,
\* and every segment occurs in exactly one batch, once.
C1_BatcherCompleteness ==
    pc = "grouped" =>
        /\ Flatten(groups) = segments
        /\ \A k \in 1..Len(segments) : Cardinality(Places(segments[k])) = 1

C1_Witness ==
    /\ pc = "grouped"
    /\ Len(segments) >= 3
    /\ Len(groups) >= 2
    /\ \E b \in 1..Len(groups) : Len(groups[b]) >= 2

\* C2: no batch of more than one segment has a combined estimated cost
\* above the budget.
C2_BudgetRespect ==
    pc = "grouped" =>
        \A b \in 1..Len(groups) :
            Len(groups[b]) > 1 => SumCost(groups[b]) <= max_tokens

\* a lone oversized segment next to a batch that fills the budget exactly
C2_Witness ==
    /\ pc = "grouped"
    /\ \E b \in 1..Len(groups) :
          Len(groups[b]) > 1 /\ SumCost(groups[b]) = max_tokens
    /\ \E b \in 1..Len(groups) :
          Len(groups[b]) = 1 /\ SumCost(groups[b]) > max_tokens

\* C3: every batch returned is non-empty.
C3_NoEmptyBatch ==
    pc = "grouped" => \A b \in 1..Len(groups) : groups[b] # <<>>

\* C10: in every batch of more than one segment, the segments' costs plus
\* one unit per delimiter between adjacent segments stay within the budget.
C10_DelimiterOverhead ==
    pc = "grouped" =>
        \A b \in 1..Len(groups) :
            Len(groups[b]) > 1 =>
                SumCost(groups[b]) + (Len(groups[b]) - 1) <= max_tokens

-----------------------------------------------------------------------------
(* Claims about the parser (SpecParse).                                    *)

\* C9: the parsing stage raises no exception, whatever the input text, and
\* a block whose first line is no integer yields a segment of index 0.
C9_LenientParsing ==
    pc # "parse" =>
        /\ raised = ""
        /\ LET kept == SelectSeq(Split(content, BlockPats),
                                 LAMBDA seg : Strip(seg) # <<>>)
           IN /\ Len(segments) = Len(kept)
              /\ \A k \in 1..Len(kept) :
                    ~IntOk(Split(kept[k], LinePats)[1]) => segments[k].id = 0

-----------------------------------------------------------------------------
(* retrieve_translation on its own.                                        *)

\* what the backend may answer: every short text of letters, blanks and
\* delimiters, and some longer answers of two and three fragments
LongResponses ==
    {<<"x", "|", "x">>, <<"x", " ", "|", "x">>, <<"x", "|", "x", "|", "x">>}

Responses == SeqsUpTo({"x", " ", "|"}, MaxRespLen) \cup LongResponses

\* retrieve_translation is entered with the text of some batch
InitGateway ==
    /\ pc = "call"
    /\ content = <<>>
    /\ api_key = <<"k">>
    /\ output_path = <<>>
    /\ max_tokens = 0
    /\ segments \in SegmentLists(BatchTexts, MaxSegs)
    /\ groups = <<segments>>
    /\ gi = 1
    /\ retries = RETRIES
    /\ invocations = 0
    /\ backend = "none"
    /\ answer = <<>>
    /\ returned = <<>>
    /\ translated_content = <<>>
    /\ current_index = 0
    /\ output_file = NotWritten
    /\ raised = ""
    /\ aligned = TRUE
    /\ expected = <<>>
    /\ nonblank_total = 0

runVars == <<content, api_key, output_path, max_tokens, segments, groups, gi,
             translated_content, current_index, output_file, aligned, expected,
             nonblank_total>>

\* lines 76-88: generate_content answers, the answer is returned
GatewayAnswers ==
    /\ pc = "call"
    /\ \E resp \in Responses :
          /\ answer' = resp
          /\ backend' = AnswerKind(resp)
          /\ returned' = resp
    /\ invocations' = invocations + 1
    /\ pc' = "returned"
    /\ UNCHANGED <<retries, raised>>
    /\ UNCHANGED runVars

\* lines 89-98: generate_content raises
GatewayFails ==
    /\ pc = "call"
    /\ backend' = "failed"
    /\ invocations' = invocations + 1
    /\ LET f == AfterFailure(retries)
       IN /\ retries' = f.retries
          /\ pc' = CASE f.next = "retry" -> "call"
                     [] f.next = "raise" -> "raised"
                     [] OTHER -> "returned"
          /\ raised' = IF f.next = "raise" THEN "GatewayFailure" ELSE raised
          /\ returned' = IF f.next = "fallthrough" THEN <<>> ELSE returned
    /\ UNCHANGED answer
    /\ UNCHANGED runVars

NextGateway == GatewayAnswers \/ GatewayFails

SpecGateway == InitGateway /\ [][NextGateway]_vars

\* C4: at most 3 invocations per call; a call returns only what the backend
\* answered, at once, on the attempt that answered; it raises only after
\* exactly 3 failed invocations.
C4_GatewayRetry ==
    /\ invocations <= 3
    /\ pc = "call" =>
          /\ invocations < 3
          /\ retries = 3 - invocations
          /\ backend = IF invocations = 0 THEN "none" ELSE "failed"
    /\ pc = "returned" =>
          /\ backend \in {"empty", "blank", "text"}
          /\ returned = answer
          /\ retries = 3 - (invocations - 1)
          /\ raised = ""
    /\ pc = "raised" =>
          /\ raised = "GatewayFailure"
          /\ backend = "failed"
          /\ invocations = 3

\* the backend failed twice and then answered
C4_Witness ==
    /\ pc = "returned"
    /\ invocations = 3
    /\ returned = <<"x">>

-----------------------------------------------------------------------------
(* translate_srt_file.                                                     *)

MAX_TOKENS_IN_SEGMENT == 700

\* texts of estimated cost 1 and 2
RunTexts == {Text(1), Text(4)}

\* an SRT file holding the segments, every block closed by a blank line
RECURSIVE Serialize(_)
Serialize(segs) ==
    IF segs = <<>> THEN <<>>
    ELSE IntToStr(Head(segs).id) \o <<NL>> \o Head(segs).timestamp \o <<NL>>
         \o Head(segs).text \o <<NL, NL>> \o Serialize(Tail(segs))

\* a file whose only block has one line
OneLineFile == <<"a">>

\* a first segment of cost 1 or 2, followed by segments of cost 1
RunSegmentLists ==
    {[k \in 1..n |-> Segment(k, Timestamp(k), IF k = 1 THEN first ELSE Text(1))] :
        n \in 0..MaxRunSegs, first \in RunTexts}

RunContents == {Serialize(segs) : segs \in RunSegmentLists} \cup {OneLineFile}

\* the command line always hands translate_srt_file an output path
\* (lines 175-181)
Init ==
    /\ pc = "start"
    /\ content \in RunContents
    /\ api_key \in {<<>>, <<"k">>}
    /\ output_path = <<"o">>
    /\ max_tokens \in (1..MaxRunBudget) \cup {MAX_TOKENS_IN_SEGMENT}
    /\ segments = <<>>
    /\ groups = <<>>
    /\ gi = 0
    /\ retries = 0
    /\ invocations = 0
    /\ backend = "none"
    /\ answer = <<>>
    /\ returned = <<>>
    /\ translated_content = <<>>
    /\ current_index = 0
    /\ output_file = NotWritten
    /\ raised = ""
    /\ aligned = TRUE
    /\ expected = <<>>
    /\ nonblank_total = 0

\* the for loop reaches position g: either retrieve_translation is entered
\* for groups[g] (line 139, lines 73-74), or the loop is over
EnterLoop(gs, g) ==
    /\ gi' = g
    /\ invocations' = 0
    /\ IF g <= Len(gs)
       THEN pc' = "call" /\ retries' = RETRIES
       ELSE pc' = "join" /\ retries' = retries

\* lines 114-116: no API key
MissingCredential ==
    /\ pc = "start"
    /\ ~Truthy(api_key)
    /\ raised' = "ValueError"
    /\ pc' = "raised"
    /\ UNCHANGED <<content, api_key, output_path, max_tokens, segments, groups, gi,
                   retries, invocations, backend, answer, returned,
                   translated_content, current_index, output_file, aligned,
                   expected, nonblank_total>>

\* lines 119-124: parse_segment raises on some block
ParseRaises ==
    /\ pc = "start"
    /\ Truthy(api_key)
    /\ ParseStage(content).raised # ""
    /\ raised' = ParseStage(content).raised
    /\ pc' = "raised"
    /\ UNCHANGED <<content, api_key, output_path, max_tokens, segments, groups, gi,
                   retries, invocations, backend, answer, returned,
                   translated_content, current_index, output_file, aligned,
                   expected, nonblank_total>>

\* lines 119-139: read, parse, group, enter the loop
ParseAndGroup ==
    /\ pc = "start"
    /\ Truthy(api_key)
    /\ ParseStage(content).raised = ""
    /\ segments' = ParseStage(content).segments
    /\ groups' = group_segments_by_token_length(segments', max_tokens)
    /\ translated_content' = <<>>
    /\ current_index' = 0
    /\ EnterLoop(groups', 1)
    /\ UNCHANGED <<content, api_key, output_path, max_tokens, backend, answer,
                   returned, output_file, raised, aligned, expected, nonblank_total>>

\* whether an answer holds exactly one non-blank fragment per segment
AlignedAnswer(group, text) ==
    IF group = <<>> THEN Strip(text) = <<>>
    ELSE LET frags == Split(text, Bar)
         IN /\ Len(frags) = Len(group)
            /\ \A j \in 1..Len(frags) : Strip(frags[j]) # <<>>

\* the fragments of an answer, trimmed
TrimmedFragments(text) ==
    LET frags == Split(text, Bar) IN [j \in 1..Len(frags) |-> Strip(frags[j])]

NonBlankCount(text) ==
    LET frags == Split(text, Bar)
    IN Cardinality({j \in 1..Len(frags) : Strip(frags[j]) # <<>>})

\* retrieve_translation returned translated_text (answered: by the backend,
\* and not by the fall-through of line 98): lines 139-154, then the next
\* iteration of the for loop
Returned(translated_text, answered) ==
    /\ LET r == ReconcileBatch(translated_text, current_index, translated_content,
                               segments)
       IN /\ current_index' = r.current_index
          /\ translated_content' = r.out
    /\ aligned' = (aligned /\ answered /\ AlignedAnswer(groups[gi], translated_text))
    /\ expected' = IF aligned' /\ groups[gi] # <<>>
                   THEN expected \o TrimmedFragments(translated_text)
                   ELSE expected
    /\ nonblank_total' = nonblank_total + NonBlankCount(translated_text)
    /\ EnterLoop(groups, gi + 1)

\* lines 76-88 and 139-154: generate_content answers, retrieve_translation
\* returns the answer, the loop body reconciles it
GenerateReturns ==
    /\ pc = "call"
    /\ \E resp \in Responses :
          /\ backend' = AnswerKind(resp)
          /\ Returned(resp, TRUE)
    /\ UNCHANGED <<content, api_key, output_path, max_tokens, segments, groups,
                   answer, returned, output_file, raised>>

\* lines 89-98: generate_content raises
GenerateRaises ==
    /\ pc = "call"
    /\ backend' = "failed"
    /\ LET f == AfterFailure(retries)
       IN CASE f.next = "raise" ->
                 /\ raised' = "GatewayFailure"
                 /\ pc' = "raised"
                 /\ invocations' = invocations + 1
                 /\ UNCHANGED <<gi, retries, translated_content, current_index,
                                aligned, expected, nonblank_total>>
            [] f.next = "retry" ->
                 /\ retries' = f.retries
                 /\ invocations' = invocations + 1
                 /\ UNCHANGED <<pc, gi, raised, translated_content, current_index,
                                aligned, expected, nonblank_total>>
            [] OTHER ->
                 /\ Returned(<<>>, FALSE)
                 /\ raised' = raised
    /\ UNCHANGED <<content, api_key, output_path, max_tokens, segments, groups,
                   answer, returned, output_file>>

\* lines 157-164: join, write when an output path is given, return
Finish ==
    /\ pc = "join"
    /\ output_file' = IF Truthy(output_path) THEN JoinBlocks(translated_content)
                      ELSE output_file
    /\ pc' = "done"
    /\ UNCHANGED <<content, api_key, output_path, max_tokens, segments, groups, gi,
                   retries, invocations, backend, answer, returned,
                   translated_content, current_index, raised, aligned, expected,
                   nonblank_total>>

Next ==
    \/ MissingCredential
    \/ ParseRaises
    \/ ParseAndGroup
    \/ GenerateReturns
    \/ GenerateRaises
    \/ Finish

Spec == Init /\ [][Next]_vars

-----------------------------------------------------------------------------
(* Claims about translate_srt_file (Spec).                                 *)

\* C5: the k-th emitted unit has index k and the timestamp of the k-th
\* original segment, or the empty string beyond the last segment; the units
\* are as many as the non-blank fragments returned so far.
C5_RunningIndex ==
    /\ current_index = Len(translated_content)
    /\ Len(translated_content) = nonblank_total
    /\ \A k \in 1..Len(translated_content) :
          /\ translated_content[k].index = k
          /\ translated_content[k].timestamp =
                IF k <= Len(segments) THEN segments[k].timestamp ELSE <<>>

\* more units than segments, over several batches
C5_Witness ==
    /\ pc = "done"
    /\ Len(groups) >= 2
    /\ Len(segments) >= 2
    /\ Len(translated_content) > Len(segments)

\* C6: when every batch was answered with exactly one non-blank fragment per
\* segment, the output holds one unit per original segment, in order: its
\* position, that segment's timestamp, that segment's trimmed fragment.
C6_TimingPreserved ==
    (pc = "done" /\ aligned) =>
        /\ Len(translated_content) = Len(segments)
        /\ Len(expected) = Len(segments)
        /\ \A k \in 1..Len(segments) :
              translated_content[k] =
                  [index |-> k, timestamp |-> segments[k].timestamp,
                   text |-> expected[k]]
        /\ output_file = JoinBlocks(translated_content)

C6_Witness ==
    /\ pc = "done"
    /\ aligned
    /\ Len(segments) >= 2
    /\ Len(groups) >= 2
    /\ \E k \in 1..Len(expected) : Len(expected[k]) >= 2

\* C7: a batch whose translation fails on all 3 attempts makes the run
\* raise; after that no step is taken (no later gateway call) and nothing
\* is written to the output path.
C7_FailureAborts ==
    /\ [](raised = "GatewayFailure" =>
            /\ pc = "raised"
            /\ invocations = 3
            /\ backend = "failed"
            /\ output_file = NotWritten)
    /\ [][(pc = "call" /\ invocations = 2 /\ backend' = "failed") =>
            (raised' = "GatewayFailure" /\ pc' = "raised")]_vars
    /\ [][raised = "GatewayFailure" => UNCHANGED vars]_vars

\* a later batch fails after an earlier one was translated
C7_Witness ==
    /\ raised = "GatewayFailure"
    /\ groups[1] # <<>>
    /\ gi >= 2
    /\ gi < Len(groups)
    /\ translated_content # <<>>
    /\ Truthy(output_path)

\* C8: a call answered with an empty or whitespace-only string raises
\* nothing, emits no unit, leaves the running index unchanged, and the run
\* goes on with the next batch.
C8_SkipOnEmpty ==
    [][(pc = "call" /\ backend' \in {"empty", "blank"}) =>
          /\ translated_content' = translated_content
          /\ current_index' = current_index
          /\ raised' = ""
          /\ output_file' = output_file
          /\ gi' = gi + 1
          /\ pc' = IF gi < Len(groups) THEN "call" ELSE "join"]_vars

\* a batch answered with blanks only was skipped after an earlier batch was
\* emitted, and the next batch is being translated
C8_Witness ==
    /\ pc = "call"
    /\ backend = "blank"
    /\ invocations = 0
    /\ groups[1] # <<>>
    /\ gi >= 3
    /\ translated_content # <<>>

=============================================================================
